---- MODULE Spec2Model ----
(***************************************************************************)
(* Model of ci/jobs/docker_server_from_binary.py: the CI job that stages   *)
(* a prebuilt clickhouse binary into the image build context, optionally   *)
(* logs in to the registry and builds the clickhouse-server image.         *)
(*                                                                         *)
(* Two independent invocations (Runs) are modelled side by side.  They     *)
(* share no state; the second one exists so that properties relating two   *)
(* executions (same outcomes, different --tag-type / --os) can be stated.  *)
(***************************************************************************)
EXTENDS Integers, Sequences, FiniteSets, TLC

\* ------------------------------------------------------------------------
\* Bounds of the model

\* Exit statuses of the external commands range over 0..MaxRc.
MaxRc == 1

Runs == {"A", "B"}

RCs == 0..MaxRc

\* ------------------------------------------------------------------------
\* Command-line inputs

\* Marks an option that is not given on the command line.
Absent == "<absent>"

\* Values tried for --tag-type: the three choices and one that is not a choice.
TagTypeInputs == {"head", "release", "release-latest", "latest"}

\* Values tried for --os.
OsInputs == {"ubuntu", "alpine"}

ArgvSpace ==
    [tag_type : TagTypeInputs \cup {Absent},
     push     : BOOLEAN,
     os       : OsInputs \cup {Absent}]

\* ------------------------------------------------------------------------
\* parse_args

TagChoices == {"head", "release", "release-latest"}

\* Namespace held by `args` before parse_args has returned.
NoArgs == [tag_type |-> "", push |-> FALSE, os |-> <<>>]

\* A parser without the choices= restriction on --tag-type.
ParseArgsAnyTag(av) ==
    [ok |-> TRUE,
     ns |-> [tag_type |-> IF av.tag_type = Absent THEN "head" ELSE av.tag_type,
             push     |-> av.push,
             os       |-> IF av.os = Absent THEN <<"ubuntu", "alpine">>
                                            ELSE <<av.os>>]]

\* argparse: --tag-type is restricted to its choices and defaults to "head";
\* --push is a store_true flag; --os defaults to the list [ubuntu, alpine]
\* (a value given on the command line is kept as that single value).
\* A value outside the choices makes the parser print usage and exit(2).
ParseArgs(av) ==
    IF av.tag_type # Absent /\ av.tag_type \notin TagChoices
    THEN [ok |-> FALSE, ns |-> NoArgs]
    ELSE [ok |-> TRUE,
          ns |-> [tag_type |-> IF av.tag_type = Absent THEN "head"
                                                       ELSE av.tag_type,
                  push     |-> av.push,
                  os       |-> IF av.os = Absent THEN <<"ubuntu", "alpine">>
                                                 ELSE <<av.os>>]]

\* Exit status of argparse's usage error.
ArgparseErrorExit == 2

\* ------------------------------------------------------------------------
\* Command strings.  A command is a record [kind, argv, stdin]; argv is the
\* list of words of the command line, each word being the list of the pieces
\* the f-string concatenates.

image_path == "./ci/docker/clickhouse-server"
image_repo == "clickhouse/clickhouse-server"

NoStdin == ""

CopyCommand ==
    [kind  |-> "cp",
     argv  |-> << <<"cp">>, <<"/tmp/praktika/input/clickhouse">>,
                  <<image_path, "/">> >>,
     stdin |-> NoStdin]

ProbeCommand ==
    [kind  |-> "probe",
     argv  |-> << <<"docker system info | grep --quiet -E 'Username|Registry'">> >>,
     stdin |-> NoStdin]

\* Value of Secret.Config("dockerhub_robot_password", AWS_SSM_VAR).get_value()
NoSecret == "<none>"
SecretValue == "AWS_SSM_VAR:dockerhub_robot_password"

LoginCommand(secret) ==
    [kind  |-> "login",
     argv  |-> << <<"docker">>, <<"login">>, <<"--username">>,
                  <<"'robotclickhouse'">>, <<"--password-stdin">> >>,
     stdin |-> secret]

\* A build command that follows the parsed arguments: tag named after
\* --tag-type and Dockerfile chosen by the first --os entry.
BuildCommandByArgs(ns) ==
    [kind  |-> "build",
     argv  |-> << <<"docker">>, <<"buildx">>, <<"build">>,
                  <<"--platform">>, <<"linux/arm64">>,
                  <<"-t">>, <<image_repo, ":", ns.tag_type>>,
                  <<image_path>>,
                  <<"-f">>, <<image_path, "/from_binary/Dockerfile.", ns.os[1]>>,
                  <<"--cache-from=type=local,src=/tmp/build-cache">>,
                  <<"--cache-to=type=local,dest=/tmp/build-cache">> >>,
     stdin |-> NoStdin]

\* The build command of main(); `ns` (args) is in scope where the string is
\* built but none of its fields is interpolated.
BuildCommand(ns) ==
    [kind  |-> "build",
     argv  |-> << <<"docker">>, <<"buildx">>, <<"build">>,
                  <<"--platform">>, <<"linux/arm64">>,
                  <<"-t">>, <<image_repo, ":tmp">>,
                  <<image_path>>,
                  <<"-f">>, <<image_path, "/from_binary/Dockerfile.ubuntu">>,
                  <<"--cache-from=type=local,src=/tmp/build-cache">>,
                  <<"--cache-to=type=local,dest=/tmp/build-cache">> >>,
     stdin |-> NoStdin]

\* A result named after the requested tag type.
ResultNameByArgs(ns) == <<image_repo, ":", ns.tag_type>>

\* name=f"{image_repo}:tmp"
ResultName(ns) == <<image_repo, ":tmp">>

\* ------------------------------------------------------------------------
\* praktika helpers (ci/praktika, outside this file)

\* Shell.check(command, strict): returns whether the command exited with 0;
\* with strict=True a non-zero exit aborts the job instead of returning.
ShellCheck(rc, strict) ==
    [aborts |-> strict /\ rc # 0, value |-> rc = 0]

StatusOk == "success"
StatusFail == "failure"

\* Result.from_commands_run(name, command, with_log): runs the command and
\* captures its outcome in a result entry; never aborts.
ResultFromCommandsRun(name, rc) ==
    [name |-> name, status |-> IF rc = 0 THEN StatusOk ELSE StatusFail]

\* Result.create_from(results, stopwatch): the aggregate is a success iff
\* every entry is.
ResultCreateFrom(rs) ==
    [invoked |-> TRUE,
     results |-> rs,
     status  |-> IF \A i \in 1..Len(rs) : rs[i].status = StatusOk
                 THEN StatusOk ELSE StatusFail]

NotReported == [invoked |-> FALSE, results |-> <<>>, status |-> ""]

\* complete_job(): the process exit status reflects the aggregate result.
CompleteJobExit(res) == IF res.status = StatusOk THEN 0 ELSE 1

\* ------------------------------------------------------------------------
\* State

VARIABLES
    pc,         \* position of each run
    argv,       \* the command line the run was started with
    args,       \* parsed namespace
    stopwatch,  \* whether Utils.Stopwatch() has been created
    relogin,    \* parameter of the docker_login frame
    ret,        \* where docker_login returns to ("" when not called)
    secret,     \* value fetched from the secret store
    cmds,       \* external commands issued, in order
    rcs,        \* their exit statuses, aligned with cmds
    results,    \* the results list of main()
    reported,   \* what complete_job() was invoked on
    exit_code   \* exit status, meaningful when pc = "exit"

vars == <<pc, argv, args, stopwatch, relogin, ret, secret, cmds, rcs,
          results, reported, exit_code>>

\* Default of docker_login's relogin parameter.
DefaultRelogin == TRUE

\* Every run is an invocation of the script (__main__ calls main()).
Init ==
    /\ pc = [r \in Runs |-> "main"]
    /\ argv \in [Runs -> ArgvSpace]
    /\ args = [r \in Runs |-> NoArgs]
    /\ stopwatch = [r \in Runs |-> FALSE]
    /\ relogin = [r \in Runs |-> DefaultRelogin]
    /\ ret = [r \in Runs |-> ""]
    /\ secret = [r \in Runs |-> NoSecret]
    /\ cmds = [r \in Runs |-> <<>>]
    /\ rcs = [r \in Runs |-> <<>>]
    /\ results = [r \in Runs |-> <<>>]
    /\ reported = [r \in Runs |-> NotReported]
    /\ exit_code = [r \in Runs |-> 0]

\* A run is either an invocation of the script or a direct call
\* docker_login(relogin) with either value of the parameter.
DirectArgv == [tag_type |-> Absent, push |-> FALSE, os |-> Absent]

InitLogin ==
    /\ pc \in [Runs -> {"main", "docker_login"}]
    /\ argv \in [Runs -> ArgvSpace]
    /\ \A r \in Runs : pc[r] = "docker_login" => argv[r] = DirectArgv
    /\ relogin \in [Runs -> BOOLEAN]
    /\ \A r \in Runs : pc[r] = "main" => relogin[r] = DefaultRelogin
    /\ ret = [r \in Runs |-> IF pc[r] = "docker_login" THEN "exit" ELSE ""]
    /\ args = [r \in Runs |-> NoArgs]
    /\ stopwatch = [r \in Runs |-> FALSE]
    /\ secret = [r \in Runs |-> NoSecret]
    /\ cmds = [r \in Runs |-> <<>>]
    /\ rcs = [r \in Runs |-> <<>>]
    /\ results = [r \in Runs |-> <<>>]
    /\ reported = [r \in Runs |-> NotReported]
    /\ exit_code = [r \in Runs |-> 0]

\* ------------------------------------------------------------------------
\* main()

\* Login issued ahead of the artifact copy.
MainParseArgsLoginFirst(r) ==
    /\ pc[r] = "main"
    /\ stopwatch' = [stopwatch EXCEPT ![r] = TRUE]
    /\ LET p == ParseArgs(argv[r]) IN
         IF p.ok
         THEN /\ args' = [args EXCEPT ![r] = p.ns]
              /\ IF p.ns.push
                 THEN /\ pc' = [pc EXCEPT ![r] = "docker_login"]
                      /\ ret' = [ret EXCEPT ![r] = "cp"]
                 ELSE /\ pc' = [pc EXCEPT ![r] = "cp"]
                      /\ ret' = ret
              /\ exit_code' = exit_code
         ELSE /\ args' = args
              /\ ret' = ret
              /\ pc' = [pc EXCEPT ![r] = "exit"]
              /\ exit_code' = [exit_code EXCEPT ![r] = ArgparseErrorExit]
    /\ UNCHANGED <<argv, relogin, secret, cmds, rcs, results, reported>>

\* stopwatch = Utils.Stopwatch(); args = parse_args()
MainParseArgs(r) ==
    /\ pc[r] = "main"
    /\ stopwatch' = [stopwatch EXCEPT ![r] = TRUE]
    /\ LET p == ParseArgs(argv[r]) IN
         IF p.ok
         THEN /\ args' = [args EXCEPT ![r] = p.ns]
              /\ pc' = [pc EXCEPT ![r] = "cp"]
              /\ exit_code' = exit_code
         ELSE /\ args' = args
              /\ pc' = [pc EXCEPT ![r] = "exit"]
              /\ exit_code' = [exit_code EXCEPT ![r] = ArgparseErrorExit]
    /\ UNCHANGED <<argv, relogin, ret, secret, cmds, rcs, results, reported>>

\* The copy without strict=True.
MainCopyLax(r) ==
    /\ pc[r] = "cp"
    /\ \E rc \in RCs :
         /\ cmds' = [cmds EXCEPT ![r] = Append(@, CopyCommand)]
         /\ rcs' = [rcs EXCEPT ![r] = Append(@, rc)]
         /\ IF ShellCheck(rc, FALSE).aborts
            THEN /\ pc' = [pc EXCEPT ![r] = "exit"]
                 /\ exit_code' = [exit_code EXCEPT ![r] = rc]
            ELSE /\ pc' = [pc EXCEPT ![r] = "if_push"]
                 /\ exit_code' = exit_code
    /\ UNCHANGED <<argv, args, stopwatch, relogin, ret, secret, results,
                   reported>>

\* The copy issued a second time.
MainCopyTwice(r) ==
    /\ pc[r] = "cp"
    /\ \E rc \in RCs :
         /\ cmds' = [cmds EXCEPT ![r] = Append(Append(@, CopyCommand), CopyCommand)]
         /\ rcs' = [rcs EXCEPT ![r] = Append(Append(@, rc), rc)]
         /\ IF ShellCheck(rc, TRUE).aborts
            THEN /\ pc' = [pc EXCEPT ![r] = "exit"]
                 /\ exit_code' = [exit_code EXCEPT ![r] = rc]
            ELSE /\ pc' = [pc EXCEPT ![r] = "if_push"]
                 /\ exit_code' = exit_code
    /\ UNCHANGED <<argv, args, stopwatch, relogin, ret, secret, results,
                   reported>>

\* Shell.check(f"cp /tmp/praktika/input/clickhouse {image_path}/",
\*             strict=True, verbose=True)
MainCopy(r) ==
    /\ pc[r] = "cp"
    /\ \E rc \in RCs :
         /\ cmds' = [cmds EXCEPT ![r] = Append(@, CopyCommand)]
         /\ rcs' = [rcs EXCEPT ![r] = Append(@, rc)]
         /\ IF ShellCheck(rc, TRUE).aborts
            THEN /\ pc' = [pc EXCEPT ![r] = "exit"]
                 /\ exit_code' = [exit_code EXCEPT ![r] = rc]
            ELSE /\ pc' = [pc EXCEPT ![r] = "if_push"]
                 /\ exit_code' = exit_code
    /\ UNCHANGED <<argv, args, stopwatch, relogin, ret, secret, results,
                   reported>>

\* The login requested whatever the push flag says.
MainIfPushAlways(r) ==
    /\ pc[r] = "if_push"
    /\ pc' = [pc EXCEPT ![r] = "docker_login"]
    /\ relogin' = [relogin EXCEPT ![r] = DefaultRelogin]
    /\ ret' = [ret EXCEPT ![r] = "build"]
    /\ UNCHANGED <<argv, args, stopwatch, secret, cmds, rcs, results,
                   reported, exit_code>>

\* The login call left out.
MainIfPushNever(r) ==
    /\ pc[r] = "if_push"
    /\ pc' = [pc EXCEPT ![r] = "build"]
    /\ UNCHANGED <<argv, args, stopwatch, relogin, ret, secret, cmds, rcs,
                   results, reported, exit_code>>

\* push = args.push; if push: docker_login()
MainIfPush(r) ==
    /\ pc[r] = "if_push"
    /\ IF args[r].push
       THEN /\ pc' = [pc EXCEPT ![r] = "docker_login"]
            /\ relogin' = [relogin EXCEPT ![r] = DefaultRelogin]
            /\ ret' = [ret EXCEPT ![r] = "build"]
       ELSE /\ pc' = [pc EXCEPT ![r] = "build"]
            /\ UNCHANGED <<relogin, ret>>
    /\ UNCHANGED <<argv, args, stopwatch, secret, cmds, rcs, results,
                   reported, exit_code>>

\* ------------------------------------------------------------------------
\* docker_login(relogin)

\* Return of docker_login to its caller (a direct call ends normally).
Return(r) == pc' = [pc EXCEPT ![r] = ret[r]]

\* The probe consulted first, whatever relogin says.
DockerLoginCondProbeFirst(r) ==
    /\ pc[r] = "docker_login"
    /\ \E rc \in RCs :
         /\ cmds' = [cmds EXCEPT ![r] = Append(@, ProbeCommand)]
         /\ rcs' = [rcs EXCEPT ![r] = Append(@, rc)]
         /\ IF relogin[r] \/ ~ShellCheck(rc, FALSE).value
            THEN pc' = [pc EXCEPT ![r] = "get_value"]
            ELSE Return(r)
    /\ UNCHANGED <<argv, args, stopwatch, relogin, ret, secret, results,
                   reported, exit_code>>

\* if relogin or not Shell.check("docker system info | grep ..."):
\* `or` short-circuits, so the probe runs only when relogin is false.
DockerLoginCond(r) ==
    /\ pc[r] = "docker_login"
    /\ IF relogin[r]
       THEN /\ pc' = [pc EXCEPT ![r] = "get_value"]
            /\ UNCHANGED <<cmds, rcs>>
       ELSE \E rc \in RCs :
              /\ cmds' = [cmds EXCEPT ![r] = Append(@, ProbeCommand)]
              /\ rcs' = [rcs EXCEPT ![r] = Append(@, rc)]
              /\ IF ~ShellCheck(rc, FALSE).value
                 THEN pc' = [pc EXCEPT ![r] = "get_value"]
                 ELSE Return(r)
    /\ UNCHANGED <<argv, args, stopwatch, relogin, ret, secret, results,
                   reported, exit_code>>

\* stdin_str=Secret.Config("dockerhub_robot_password", ...).get_value()
\* (the argument is evaluated before Shell.check is entered)
DockerLoginGetValue(r) ==
    /\ pc[r] = "get_value"
    /\ secret' = [secret EXCEPT ![r] = SecretValue]
    /\ pc' = [pc EXCEPT ![r] = "login"]
    /\ UNCHANGED <<argv, args, stopwatch, relogin, ret, cmds, rcs, results,
                   reported, exit_code>>

\* Shell.check("docker login --username ... --password-stdin",
\*             strict=True, stdin_str=<secret>, encoding="utf-8")
DockerLoginRun(r) ==
    /\ pc[r] = "login"
    /\ \E rc \in RCs :
         /\ cmds' = [cmds EXCEPT ![r] = Append(@, LoginCommand(secret[r]))]
         /\ rcs' = [rcs EXCEPT ![r] = Append(@, rc)]
         /\ IF ShellCheck(rc, TRUE).aborts
            THEN /\ pc' = [pc EXCEPT ![r] = "exit"]
                 /\ exit_code' = [exit_code EXCEPT ![r] = rc]
            ELSE /\ Return(r)
                 /\ exit_code' = exit_code
    /\ UNCHANGED <<argv, args, stopwatch, relogin, ret, secret, results,
                   reported>>

\* ------------------------------------------------------------------------
\* main(), continued

\* The build run as a strict command: a failure aborts the job.
MainBuildStrict(r) ==
    /\ pc[r] = "build"
    /\ \E rc \in RCs :
         /\ cmds' = [cmds EXCEPT ![r] = Append(@, BuildCommand(args[r]))]
         /\ rcs' = [rcs EXCEPT ![r] = Append(@, rc)]
         /\ IF ShellCheck(rc, TRUE).aborts
            THEN /\ results' = [results EXCEPT ![r] = <<>>]
                 /\ pc' = [pc EXCEPT ![r] = "exit"]
                 /\ exit_code' = [exit_code EXCEPT ![r] = rc]
            ELSE /\ results' = [results EXCEPT ![r] =
                       <<ResultFromCommandsRun(ResultName(args[r]), rc)>>]
                 /\ pc' = [pc EXCEPT ![r] = "complete_job"]
                 /\ exit_code' = exit_code
    /\ UNCHANGED <<argv, args, stopwatch, relogin, ret, secret, reported>>

\* results = []; command = f"docker buildx build ...";
\* results.append(Result.from_commands_run(name=f"{image_repo}:tmp",
\*                                         command=command, with_log=True))
MainBuild(r) ==
    /\ pc[r] = "build"
    /\ \E rc \in RCs :
         /\ cmds' = [cmds EXCEPT ![r] = Append(@, BuildCommand(args[r]))]
         /\ rcs' = [rcs EXCEPT ![r] = Append(@, rc)]
         /\ results' = [results EXCEPT ![r] =
               Append(<<>>, ResultFromCommandsRun(ResultName(args[r]), rc))]
    /\ pc' = [pc EXCEPT ![r] = "complete_job"]
    /\ UNCHANGED <<argv, args, stopwatch, relogin, ret, secret, reported,
                   exit_code>>

\* Result.create_from(results=results, stopwatch=stopwatch).complete_job()
MainCompleteJob(r) ==
    /\ pc[r] = "complete_job"
    /\ LET res == ResultCreateFrom(results[r]) IN
         /\ reported' = [reported EXCEPT ![r] = res]
         /\ exit_code' = [exit_code EXCEPT ![r] = CompleteJobExit(res)]
    /\ pc' = [pc EXCEPT ![r] = "exit"]
    /\ UNCHANGED <<argv, args, stopwatch, relogin, ret, secret, cmds, rcs,
                   results>>

Next ==
    \E r \in Runs :
        \/ MainParseArgs(r)
        \/ MainCopy(r)
        \/ MainIfPush(r)
        \/ DockerLoginCond(r)
        \/ DockerLoginGetValue(r)
        \/ DockerLoginRun(r)
        \/ MainBuild(r)
        \/ MainCompleteJob(r)

\* Runs of the script.
Spec == Init /\ [][Next]_vars

\* Runs of the script and direct calls of docker_login(relogin).
SpecLogin == InitLogin /\ [][Next]_vars

\* ------------------------------------------------------------------------
\* Vocabulary of the properties

Idx(r) == 1..Len(cmds[r])

\* Positions at which run r issued a command of kind k.
At(r, k) == {i \in Idx(r) : cmds[r][i].kind = k}

Issued(r, k) == At(r, k) # {}

\* Positions of commands that exited with a non-zero status.
Failed(r, k) == {i \in At(r, k) : rcs[r][i] # 0}

\* The run got past argument parsing.
Parsed(r) == args[r] # NoArgs

\* ------------------------------------------------------------------------
\* C1: in a run invoked with --push, every execution of the build command is
\* preceded, in the same run, by a 'docker login' command.
C1_LoginBeforeBuild ==
    \A r \in Runs :
        argv[r].push =>
            \A j \in At(r, "build") : \E i \in At(r, "login") : i < j

C1_Witness ==
    \E r \in Runs : argv[r].push /\ Issued(r, "build") /\ pc[r] = "exit"

\* C2: in a run invoked without --push, docker_login is never entered: no
\* probe, no secret fetch and no 'docker login', whatever copy and build did.
C2_NoLoginWithoutPush ==
    \A r \in Runs :
        ~argv[r].push =>
            /\ ~Issued(r, "probe")
            /\ ~Issued(r, "login")
            /\ secret[r] = NoSecret
            /\ ret[r] = ""
            /\ pc[r] \notin {"docker_login", "get_value", "login"}

C2_Witness ==
    \E r \in Runs :
        /\ ~argv[r].push
        /\ pc[r] = "exit"
        /\ Failed(r, "build") # {}

\* C3: a --tag-type outside {head, release, release-latest} ends the run with
\* a non-zero exit and nothing else done: no copy, login or build command,
\* no result entry, no job finalization.
C3_RejectedDoesNothing ==
    \A r \in Runs :
        (/\ argv[r].tag_type # Absent
         /\ argv[r].tag_type \notin {"head", "release", "release-latest"}
         /\ pc[r] # "main") =>
            /\ pc[r] = "exit"
            /\ exit_code[r] # 0
            /\ cmds[r] = <<>>
            /\ secret[r] = NoSecret
            /\ results[r] = <<>>
            /\ ~reported[r].invoked

C3_Witness ==
    \E r \in Runs : argv[r].tag_type = "latest" /\ pc[r] = "exit"

\* C4: a non-zero exit of the copy or of the login is the last thing the run
\* does: no later command (so no login/build after a failed copy, no build
\* after a failed login), no result entry, no complete_job, a non-zero exit;
\* and no command is issued twice.
C4_StrictFailureAborts ==
    \A r \in Runs :
        /\ \A i \in Failed(r, "cp") \cup Failed(r, "login") :
              /\ i = Len(cmds[r])
              /\ pc[r] = "exit"
              /\ exit_code[r] # 0
              /\ results[r] = <<>>
              /\ ~reported[r].invoked
        /\ \A k \in {"cp", "probe", "login", "build"} :
              Cardinality(At(r, k)) <= 1

C4_Witness ==
    /\ \E r \in Runs : Failed(r, "cp") # {}
    /\ \E r \in Runs : Failed(r, "login") # {}

\* C5: a non-zero exit of the build command does not abort: it is recorded
\* as a failed entry, complete_job is still invoked with that entry, and the
\* job's outcome is the entry's outcome.
C5_BuildFailureRecorded ==
    \A r \in Runs :
        /\ Failed(r, "build") # {} =>
              /\ pc[r] \in {"complete_job", "exit"}
              /\ Len(results[r]) = 1
              /\ results[r][1].status = StatusFail
              /\ pc[r] = "exit" =>
                    /\ reported[r].invoked
                    /\ reported[r].results = results[r]
                    /\ reported[r].status = StatusFail
                    /\ exit_code[r] # 0
        /\ reported[r].invoked =>
              /\ reported[r].status = reported[r].results[1].status
              /\ (exit_code[r] = 0) = (reported[r].status = StatusOk)

C5_Witness ==
    \E r \in Runs :
        Failed(r, "build") # {} /\ pc[r] = "exit" /\ reported[r].invoked

\* C6: the copy command runs exactly once in every invocation that passes
\* argument parsing, and a build is only ever executed after a copy that
\* succeeded.
C6_CopyOnceBeforeBuild ==
    \A r \in Runs :
        /\ Cardinality(At(r, "cp")) <= 1
        /\ (Parsed(r) /\ pc[r] # "cp") => Cardinality(At(r, "cp")) = 1
        /\ \A i \in At(r, "cp") :
              cmds[r][i] = [kind |-> "cp",
                            argv |-> << <<"cp">>,
                                        <<"/tmp/praktika/input/clickhouse">>,
                                        <<"./ci/docker/clickhouse-server", "/">> >>,
                            stdin |-> ""]
        /\ \A j \in At(r, "build") :
              \E i \in At(r, "cp") : i < j /\ rcs[r][i] = 0

C6_Witness ==
    \E r \in Runs : Issued(r, "build") /\ pc[r] = "exit"

\* C7 as stated: at the end of every run the results list has exactly one
\* entry, named clickhouse/clickhouse-server:tmp, and the build command was
\* executed exactly once.
C7_OneResultEveryRun ==
    \A r \in Runs :
        pc[r] = "exit" =>
            /\ Len(results[r]) = 1
            /\ results[r][1].name = <<"clickhouse/clickhouse-server", ":tmp">>
            /\ Cardinality(At(r, "build")) = 1

\* C7 amended: every run that reaches the reporter hands it exactly one
\* entry, named clickhouse/clickhouse-server:tmp, after exactly one build
\* command; a run that ends without reaching the reporter (rejected
\* arguments, failed copy or failed login) has no entry and no build; no run
\* ever has more than one of either.
C7_OneResultPerReportedRun ==
    \A r \in Runs :
        /\ Len(results[r]) <= 1
        /\ Cardinality(At(r, "build")) <= 1
        /\ Len(results[r]) = Cardinality(At(r, "build"))
        /\ \A i \in 1..Len(results[r]) :
              results[r][i].name = <<"clickhouse/clickhouse-server", ":tmp">>
        /\ reported[r].invoked =>
              /\ Len(reported[r].results) = 1
              /\ reported[r].results = results[r]
              /\ Cardinality(At(r, "build")) = 1
        /\ (pc[r] = "exit" /\ ~reported[r].invoked) =>
              /\ results[r] = <<>>
              /\ ~Issued(r, "build")

C7_Witness ==
    /\ \E r \in Runs : pc[r] = "exit" /\ reported[r].invoked
    /\ \E r \in Runs : pc[r] = "exit" /\ ~reported[r].invoked
                        /\ Failed(r, "cp") # {}

StagesFollow(rank) ==
    \A r \in Runs :
        /\ \A i \in Idx(r) : \A j \in Idx(r) :
              i < j => rank[cmds[r][i].kind] < rank[cmds[r][j].kind]
        /\ cmds[r] # <<>> => (stopwatch[r] /\ Parsed(r))
        /\ (Issued(r, "probe") \/ Issued(r, "login")) => args[r].push
        /\ reported[r].invoked =>
              /\ cmds[r] # <<>>
              /\ cmds[r][Len(cmds[r])].kind = "build"

\* C9 as stated: parsing, authenticator (push only), stager, build, reporter,
\* in that order; with --push the login is issued before the copy.
C9_LoginThenCopy ==
    /\ StagesFollow([k \in {"cp", "probe", "login", "build"} |->
                        CASE k = "probe" -> 1
                          [] k = "login" -> 1
                          [] k = "cp"    -> 2
                          [] k = "build" -> 3])
    /\ \A r \in Runs :
          argv[r].push =>
              \A j \in At(r, "cp") : \E i \in At(r, "login") : i < j

\* C9 amended: parsing, stager, authenticator (push only), build, reporter,
\* in that order; with --push the login is issued after the copy.
C9_CopyThenLogin ==
    /\ StagesFollow([k \in {"cp", "probe", "login", "build"} |->
                        CASE k = "cp"    -> 1
                          [] k = "probe" -> 2
                          [] k = "login" -> 2
                          [] k = "build" -> 3])
    /\ \A r \in Runs :
          \A j \in At(r, "login") : \E i \in At(r, "cp") : i < j

C9_Witness ==
    \E r \in Runs :
        /\ argv[r].push
        /\ Issued(r, "cp") /\ Issued(r, "login") /\ Issued(r, "build")
        /\ reported[r].invoked

\* C10: docker_login(relogin) fetches the secret and issues 'docker login'
\* iff relogin is true or the probe exited non-zero; the probe is issued iff
\* relogin is false; main() calls it with relogin = True, so a push run never
\* probes and always logs in.
Called(r) == ret[r] # ""

InLogin(r) == pc[r] \in {"docker_login", "get_value", "login"}

C10_LoginIffForcedOrProbeFails ==
    \A r \in Runs :
        LET needed == relogin[r] \/ Failed(r, "probe") # {} IN
        /\ Issued(r, "probe") => ~relogin[r]
        /\ (Called(r) /\ pc[r] # "docker_login") =>
              (Issued(r, "probe") <=> ~relogin[r])
        /\ Issued(r, "login") => (needed /\ secret[r] # NoSecret)
        /\ secret[r] # NoSecret => needed
        /\ (Called(r) /\ ~InLogin(r)) =>
              /\ Issued(r, "login") <=> needed
              /\ secret[r] # NoSecret <=> needed
        /\ (Called(r) /\ argv[r].push) => (relogin[r] /\ ~Issued(r, "probe"))
        /\ (argv[r].push /\ pc[r] \in {"build", "complete_job"}) =>
              Issued(r, "login")

C10_Witness ==
    /\ \E r \in Runs :
          /\ ret[r] = "exit" /\ ~relogin[r] /\ pc[r] = "exit"
          /\ Issued(r, "probe") /\ Failed(r, "probe") = {}
          /\ ~Issued(r, "login") /\ secret[r] = NoSecret
    /\ \E r \in Runs :
          /\ ret[r] = "exit" /\ ~relogin[r] /\ pc[r] = "exit"
          /\ Failed(r, "probe") # {} /\ Issued(r, "login")

====
